---- MODULE Spec2Model ----
(***************************************************************************)
(* koishi-plugin-permissions: the `perm` command, listPermission,          *)
(* modifyPermission, deleteGroup and the group re-publisher, over the     *)
(* host's record store, permission registry and admin group service.      *)
(*                                                                         *)
(* Strings are sequences of one-character strings, so that startsWith,    *)
(* slice, indexOf and template literals are computed as the code does.    *)
(* The empty sequence is the empty string, which JavaScript treats as     *)
(* falsy exactly like null/undefined in the tests the code makes.         *)
(***************************************************************************)
EXTENDS Integers, Sequences, FiniteSets, TLC

VARIABLES
    variant,      \* which revision of the add-on runs: "db", "admin0", "admin1"
    users,        \* host user records: <<platform, id>> -> permissions list
    channels,     \* host channel records: <<platform, id>> -> permissions list
    groups,       \* table 'permissions': set of rows [id, name, permissions]
    nextId,       \* auto-increment primary key of table 'permissions'
    registry,     \* live definitions made by ctx.permissions.define
    disposables,  \* this.disposables: group name -> registration it disposes
    adminGroups,  \* ctx.admin.groups: sequence of [id, name, permissions]
    adminNextId,  \* next id ctx.admin.createGroup hands out
    procs,        \* interleaved invocations: per process its position and locals
    call          \* the awaited call: its arguments, its position, what it returned

vars == <<variant, users, channels, groups, nextId, registry, disposables,
          adminGroups, adminNextId, procs, call>>

----------------------------------------------------------------------------
(* Bounds *)

MaxLen == 2        \* most names one direct call adds and removes, together
MaxPerms == 2      \* most permission tokens of one `perm` invocation
MaxId == 2         \* rows the auto-increment key may hand out
MaxAdminId == 2    \* ids ctx.admin.createGroup may hand out

----------------------------------------------------------------------------
(* Strings *)

EmptyStr == <<>>

StartsWith(s, pre) ==
    /\ Len(s) >= Len(pre)
    /\ SubSeq(s, 1, Len(pre)) = pre

\* x.slice(1)
Slice1(s) == SubSeq(s, 2, Len(s))

\* String.prototype.indexOf for a single character: 0-based, -1 when absent
IndexOf(s, c) ==
    IF \E i \in 1..Len(s) : s[i] = c
    THEN (CHOOSE i \in 1..Len(s) : s[i] = c /\ \A j \in 1..(i-1) : s[j] # c) - 1
    ELSE -1

LastIndexOf(s, c) ==
    IF \E i \in 1..Len(s) : s[i] = c
    THEN (CHOOSE i \in 1..Len(s) : s[i] = c /\ \A j \in (i+1)..Len(s) : s[j] # c) - 1
    ELSE -1

\* target.slice(0, index): a negative end counts from the end of the string
SliceTo(s, index) ==
    IF index >= 0 THEN SubSeq(s, 1, index) ELSE SubSeq(s, 1, Len(s) + index)

\* target.slice(index + 1)
SliceFrom(s, start) == SubSeq(s, start + 1, Len(s))

SandboxPrefix == <<"s","a","n","d","b","o","x",":">>

parsePlatform(target) ==
    LET index == IF variant = "admin1" /\ StartsWith(target, SandboxPrefix)
                 THEN LastIndexOf(target, ":")
                 ELSE IndexOf(target, ":")
    IN  <<SliceTo(target, index), SliceFrom(target, index + 1)>>

Range(s) == {s[i] : i \in 1..Len(s)}

NoDup(s) == \A i, j \in 1..Len(s) : s[i] = s[j] => i = j

----------------------------------------------------------------------------
(* new Set(list), Set.add, Set.delete, [...set]: a Set keeps insertion order *)

RECURSIVE SetOf(_)
SetOf(list) ==
    IF list = <<>> THEN <<>>
    ELSE LET init == SetOf(SubSeq(list, 1, Len(list) - 1))
             x == list[Len(list)]
         IN  IF x \in Range(init) THEN init ELSE Append(init, x)

\* a list push in place of Set.add
SetAddPush(set, x) == Append(set, x)

SetAdd(set, x) == IF x \in Range(set) THEN set ELSE Append(set, x)

SetDelete(set, x) == SelectSeq(set, LAMBDA y : y # x)

RECURSIVE AddAll(_, _)
AddAll(set, xs) ==
    IF xs = <<>> THEN set ELSE AddAll(SetAdd(set, Head(xs)), Tail(xs))

RECURSIVE DeleteAll(_, _)
DeleteAll(set, xs) ==
    IF xs = <<>> THEN set ELSE DeleteAll(SetDelete(set, Head(xs)), Tail(xs))

\* the removals left out
MergeNoDelete(old, set, unset) == AddAll(SetOf(old), set)

\* the removals made before the additions
MergeDeleteFirst(old, set, unset) == AddAll(DeleteAll(SetOf(old), unset), set)

\* const permissions = new Set(old); set.forEach(add); unset.forEach(delete)
Merge(old, set, unset) == DeleteAll(AddAll(SetOf(old), set), unset)

----------------------------------------------------------------------------
(* The names and keys the behaviours draw their inputs from *)

PermP == <<"p">>
PermQ == <<"q">>

\* ctx.permissions.list() before any group is published
Builtin == {PermP}

Uid == <<"t",":","u">>      \* session.uid: platform "t", user "u"
Cid == <<"t",":","c">>      \* session.cid: platform "t", channel "c"

At == <<"@">>
Hash == <<"#">>
Dollar == <<"$">>
Tilde == <<"~">>
GroupDot == <<"g","r","o","u","p",".">>
GroupColon == <<"g","r","o","u","p",":">>

NameA == <<"a">>
NameB == <<"b">>

UserTarget == At \o Uid
ChannelTarget == Hash \o Cid
GroupTargetA == GroupDot \o NameA
GroupTargetB == GroupDot \o NameB

Digits == <<"0","1","2","3","4","5","6","7","8","9">>

\* `${id}` for the ids the bounds allow
IdStr(id) == <<Digits[id + 1]>>

IsDigit(c) == \E i \in 1..Len(Digits) : Digits[i] = c

\* !isNaN(+s): every character a digit (the empty string converts to 0)
IsNumeric(s) == \A i \in 1..Len(s) : IsDigit(s[i])

\* +s for a numeric string of at most one digit
ToNumber(s) ==
    IF s = <<>> THEN 0 ELSE (CHOOSE i \in 1..Len(Digits) : Digits[i] = s[1]) - 1

----------------------------------------------------------------------------
(* Host services, as the add-on's calls use them *)

\* ctx.database.getUser / getChannel: the record, when there is one
HasRecord(table, key) == key \in DOMAIN table

\* ctx.database.get('permissions', { name }): the matching rows
GroupRows(name) == {g \in groups : g.name = name}

\* (...)?.[0]: the first matching row, rows being kept in id order
FirstRow(rows) == CHOOSE g \in rows : \A h \in rows : g.id <= h.id

\* a write that does not filter the rows by name
SetRowsAll(rows, name, permissions) ==
    {[g EXCEPT !.permissions = permissions] : g \in rows}

\* ctx.database.set('permissions', { name }, { permissions })
SetRows(rows, name, permissions) ==
    {IF g.name = name THEN [g EXCEPT !.permissions = permissions] ELSE g : g \in rows}

\* ctx.database.remove('permissions', { name })
RemoveRows(rows, name) == {g \in rows : g.name # name}

\* ctx.permissions.list(): the built-in names and every published definition
PermissionsList == Builtin \cup {r.name : r \in registry}

HeldRids(reg, disp) == {r.rid : r \in reg} \cup {disp[n] : n \in DOMAIN disp}

\* the identity of the definition a call to ctx.permissions.define creates
FreshRid(reg, disp) ==
    CHOOSE n \in 1..(Cardinality(HeldRids(reg, disp)) + 1) :
        /\ n \notin HeldRids(reg, disp)
        /\ \A m \in 1..(n - 1) : m \in HeldRids(reg, disp)

\* the function ctx.permissions.define returned, called
Dispose(reg, rid) == {r \in reg : r.rid # rid}

\* this.disposables[name]?.()
DisposeNamed(reg, disp, name) ==
    IF name \in DOMAIN disp THEN Dispose(reg, disp[name]) ELSE reg

\* delete this.disposables[name]
DeleteKey(disp, name) == [n \in (DOMAIN disp) \ {name} |-> disp[n]]

----------------------------------------------------------------------------
(* ctx.admin, the admin add-on's group service, as the add-on's calls use it *)

\* this.ctx.admin.groups.find(x => x.name === name): its index, 0 for undefined
FindByName(ag, name) ==
    IF \E i \in 1..Len(ag) : ag[i].name = name
    THEN CHOOSE i \in 1..Len(ag) : ag[i].name = name /\ \A j \in 1..(i-1) : ag[j].name # name
    ELSE 0

\* this.ctx.admin.groups.find(x => x.id === id): its index, 0 for undefined
FindById(ag, id) ==
    IF \E i \in 1..Len(ag) : ag[i].id = id
    THEN CHOOSE i \in 1..Len(ag) : ag[i].id = id /\ \A j \in 1..(i-1) : ag[j].id # id
    ELSE 0

findGroup(ag, nameOrId) ==
    LET n == IF StartsWith(nameOrId, Dollar) THEN Slice1(nameOrId) ELSE nameOrId
    IN  IF ~IsNumeric(n) THEN FindByName(ag, n) ELSE FindById(ag, ToNumber(n))

\* ctx.admin.createGroup(name), which resolves to the new group's id
AdminCreate(ag, id, name) == Append(ag, [id |-> id, name |-> name, permissions |-> <<>>])

\* ctx.admin.updateGroup(id, permissions)
AdminUpdate(ag, id, permissions) ==
    [i \in 1..Len(ag) |-> IF ag[i].id = id THEN [ag[i] EXCEPT !.permissions = permissions]
                          ELSE ag[i]]

----------------------------------------------------------------------------
(* Permissions.#updateGroup(name, permissions), permissions given: the prior *)
(* definition of the name is disposed and the new one kept in disposables.   *)

\* the prior definition left in place
updateGroupKeepsPrior(reg, disp, name, permissions) ==
    LET rid == FreshRid(reg, disp)
    IN  [registry |-> reg \cup {[rid |-> rid, name |-> name, permissions |-> permissions]},
         disposables |-> (name :> rid) @@ disp]

updateGroup(reg, disp, name, permissions) ==
    LET reg1 == DisposeNamed(reg, disp, name)
        rid == FreshRid(reg1, DeleteKey(disp, name))
    IN  [registry |-> reg1 \cup {[rid |-> rid, name |-> name, permissions |-> permissions]},
         disposables |-> (name :> rid) @@ disp]

----------------------------------------------------------------------------
(* Permissions.listPermission(target): what it resolves to *)

Undefined == [kind |-> "undefined", list |-> <<>>]
ListOf(l) == [kind |-> "list", list |-> l]

\* the group a key selects in ctx.admin.groups: index, 0 for undefined
AdminLookup(target) ==
    IF variant = "admin0" THEN FindByName(adminGroups, target)
    ELSE IF StartsWith(target, Dollar) THEN findGroup(adminGroups, target)
    ELSE 0

listPermission(target) ==
    IF target = EmptyStr THEN Undefined
    ELSE IF StartsWith(target, At)
    THEN LET key == parsePlatform(Slice1(target))
         IN  IF HasRecord(users, key) THEN ListOf(users[key]) ELSE Undefined
    ELSE IF StartsWith(target, Hash)
    THEN LET key == parsePlatform(Slice1(target))
         IN  IF HasRecord(channels, key) THEN ListOf(channels[key]) ELSE Undefined
    ELSE IF variant = "db"
    THEN IF GroupRows(target) # {} THEN ListOf(FirstRow(GroupRows(target)).permissions)
         ELSE Undefined
    ELSE IF AdminLookup(target) # 0
    THEN ListOf(adminGroups[AdminLookup(target)].permissions)
    ELSE Undefined

\* a listing that fetches or creates, as modifyPermission does
ListEffectCreates(target) ==
    /\ users' = IF StartsWith(target, At) /\ ~HasRecord(users, parsePlatform(Slice1(target)))
                THEN (parsePlatform(Slice1(target)) :> <<>>) @@ users
                ELSE users
    /\ UNCHANGED <<channels, groups, nextId, registry, disposables,
                   adminGroups, adminNextId>>

\* listPermission awaits reads only: the stores after it has resolved
ListEffect(target) ==
    UNCHANGED <<users, channels, groups, nextId, registry, disposables,
                adminGroups, adminNextId>>

----------------------------------------------------------------------------
(* Permissions.modifyPermission(target, set, unset) *)

\* the user and channel branches: fetch or create the record, merge, set
PatchRecord(table, key, set, unset) ==
    LET old == IF HasRecord(table, key) THEN table[key] ELSE <<>>
    IN  (key :> Merge(old, set, unset)) @@ table

\* a create that does not look for the row first
GroupAlwaysCreate(rows, id, target) ==
    rows \cup {[id |-> id, name |-> target, permissions |-> <<>>]}

\* the group branch of the database-backed revision: the rows after
\* get(...)?.[0] ?? create(...)
GroupFetchOrCreate(rows, id, target) ==
    IF {g \in rows : g.name = target} # {} THEN rows
    ELSE rows \cup {[id |-> id, name |-> target, permissions |-> <<>>]}

GroupCreates(target) == GroupRows(target) = {}

GroupMerged(rows, target, set, unset) ==
    Merge(FirstRow({g \in rows : g.name = target}).permissions, set, unset)

\* the value modifyPermission resolves to
ModifyReturns(target) ==
    IF target = EmptyStr THEN FALSE
    ELSE IF StartsWith(target, At) \/ StartsWith(target, Hash) THEN TRUE
    ELSE IF variant = "admin1" THEN StartsWith(target, Dollar)
    ELSE TRUE

IsGroupKey(target) ==
    /\ target # EmptyStr
    /\ ~StartsWith(target, At)
    /\ ~StartsWith(target, Hash)
    /\ ModifyReturns(target)

\* the auto-increment keys are bounded: a call that would create past the
\* bound is not taken
CanModify(target) ==
    IsGroupKey(target) =>
        IF variant = "db" THEN GroupCreates(target) => nextId <= MaxId
        ELSE AdminLookup(target) = 0 => adminNextId <= MaxAdminId

ModifyDbGroup(target, set, unset) ==
    LET rows1 == GroupFetchOrCreate(groups, nextId, target)
        permissions == GroupMerged(rows1, target, set, unset)
        pub == updateGroup(registry, disposables, target, permissions)
    IN  /\ groups' = SetRows(rows1, target, permissions)
        /\ nextId' = IF GroupCreates(target) THEN nextId + 1 ELSE nextId
        /\ registry' = pub.registry
        /\ disposables' = pub.disposables
        /\ UNCHANGED <<users, channels, adminGroups, adminNextId>>

ModifyAdminGroup(target, set, unset) ==
    LET found == AdminLookup(target)
        name == IF variant = "admin1" THEN Slice1(target) ELSE target
        ag1 == IF found = 0 THEN AdminCreate(adminGroups, adminNextId, name)
               ELSE adminGroups
        \* group = this.ctx.admin.groups.find(x => x.id === id)
        idx == IF found = 0 THEN FindById(ag1, adminNextId) ELSE found
        permissions == Merge(ag1[idx].permissions, set, unset)
    IN  /\ adminGroups' = AdminUpdate(ag1, ag1[idx].id, permissions)
        /\ adminNextId' = IF found = 0 THEN adminNextId + 1 ELSE adminNextId
        /\ UNCHANGED <<users, channels, groups, nextId, registry, disposables>>

ModifyEffect(target, set, unset) ==
    IF target = EmptyStr
    THEN UNCHANGED <<users, channels, groups, nextId, registry, disposables,
                     adminGroups, adminNextId>>
    ELSE IF StartsWith(target, At)
    THEN /\ users' = PatchRecord(users, parsePlatform(Slice1(target)), set, unset)
         /\ UNCHANGED <<channels, groups, nextId, registry, disposables,
                        adminGroups, adminNextId>>
    ELSE IF StartsWith(target, Hash)
    THEN /\ channels' = PatchRecord(channels, parsePlatform(Slice1(target)), set, unset)
         /\ UNCHANGED <<users, groups, nextId, registry, disposables,
                        adminGroups, adminNextId>>
    ELSE IF variant = "db" THEN ModifyDbGroup(target, set, unset)
    ELSE IF IsGroupKey(target) THEN ModifyAdminGroup(target, set, unset)
    ELSE UNCHANGED <<users, channels, groups, nextId, registry, disposables,
                     adminGroups, adminNextId>>

----------------------------------------------------------------------------
(* Permissions.deleteGroup(name) *)

\* the row removed and the key dropped, the definition left published
DeleteEffectNoDispose(name) ==
    /\ groups' = RemoveRows(groups, name)
    /\ registry' = registry
    /\ disposables' = DeleteKey(disposables, name)
    /\ UNCHANGED <<users, channels, nextId, adminGroups, adminNextId>>

DeleteEffect(name) ==
    /\ groups' = RemoveRows(groups, name)
    /\ registry' = DisposeNamed(registry, disposables, name)
    /\ disposables' = DeleteKey(disposables, name)
    /\ UNCHANGED <<users, channels, nextId, adminGroups, adminNextId>>

----------------------------------------------------------------------------
(* Calls of the service's methods, each awaited to completion before the   *)
(* next is made: the caller binds the arguments, the method runs, and the  *)
(* caller takes the result.                                                *)

Lists(S, n) == UNION {[1..k -> S] : k \in 0..n}

Names == {PermP, PermQ}

\* every key the calls use
Targets == {EmptyStr, UserTarget, ChannelTarget, GroupTargetA, GroupTargetB}

\* the keys modified where users, channels and one group are followed together
RecordTargets == {EmptyStr, UserTarget, ChannelTarget, GroupTargetA}

\* the keys modified where two groups are followed together
GroupTargets == {UserTarget, GroupTargetA, GroupTargetB}

GroupNames == {GroupTargetA, GroupTargetB}

\* the add and remove lists of one call
Args == {a \in Lists(Names, MaxLen) \X Lists(Names, MaxLen) : Len(a[1]) + Len(a[2]) <= MaxLen}

NoOptions ==
    [user |-> EmptyStr, currentUser |-> FALSE, channel |-> EmptyStr,
     currentChannel |-> FALSE, group |-> EmptyStr, delete |-> FALSE, force |-> FALSE]

Request(op, target, set, unset) ==
    [phase |-> "pending", op |-> op, target |-> target, set |-> set, unset |-> unset,
     options |-> NoOptions, perms |-> <<>>, kind |-> "void", list |-> <<>>, text |-> ""]

Idle == [Request("none", EmptyStr, <<>>, <<>>) EXCEPT !.phase = "idle"]

\* the call resolved: kind is "true", "false", "undefined", "list", "void",
\* "text" (a session.text message) or "throw"
Resolved(kind, list, text) ==
    [call EXCEPT !.phase = "done", !.kind = kind, !.list = list, !.text = text]

Requests(modified) ==
    {Request("modifyPermission", t, a[1], a[2]) : t \in modified, a \in Args}
        \cup {Request("deleteGroup", n, <<>>, <<>>) : n \in GroupNames}
        \cup {Request("listPermission", t, <<>>, <<>>) : t \in Targets}

Invoke(r) ==
    /\ call.phase = "idle"
    /\ procs = <<>>
    /\ r.op = "modifyPermission" => CanModify(r.target)
    /\ call' = r
    /\ UNCHANGED <<variant, users, channels, groups, nextId, registry, disposables,
                   adminGroups, adminNextId, procs>>

ModifyPermissionCall ==
    /\ call.phase = "pending"
    /\ call.op = "modifyPermission"
    /\ ModifyEffect(call.target, call.set, call.unset)
    /\ call' = Resolved(IF ModifyReturns(call.target) THEN "true" ELSE "false", <<>>, "")
    /\ UNCHANGED <<variant, procs>>

DeleteGroupCall ==
    /\ call.phase = "pending"
    /\ call.op = "deleteGroup"
    /\ DeleteEffect(call.target)
    /\ call' = Resolved("void", <<>>, "")
    /\ UNCHANGED <<variant, procs>>

ListPermissionCall ==
    /\ call.phase = "pending"
    /\ call.op = "listPermission"
    /\ ListEffect(call.target)
    /\ call' = Resolved(listPermission(call.target).kind, listPermission(call.target).list, "")
    /\ UNCHANGED <<variant, procs>>

Return ==
    /\ call.phase = "done"
    /\ call' = Idle
    /\ UNCHANGED <<variant, users, channels, groups, nextId, registry, disposables,
                   adminGroups, adminNextId, procs>>

----------------------------------------------------------------------------
(* The state after construction *)

InitStores ==
    /\ users = <<>>
    /\ channels = <<>>
    /\ groups = {}
    /\ nextId = 1
    /\ registry = {}
    /\ disposables = <<>>
    /\ adminGroups = <<>>
    /\ adminNextId = 1
    /\ procs = <<>>
    /\ call = Idle

Init ==
    /\ variant = "db"
    /\ InitStores

----------------------------------------------------------------------------
(* The `perm` command's action *)

Unknown == <<"x">>
MissingRef == Dollar \o NameB

\* the tokens an invocation's permission arguments are drawn from, in the
\* order an invocation gives them
TokenOrder ==
    <<Tilde \o Unknown, PermP, Unknown, Dollar \o NameA, MissingRef, Tilde \o GroupColon>>

Tokens == Range(TokenOrder)

Rank(x) == CHOOSE i \in 1..Len(TokenOrder) : TokenOrder[i] = x

\* the target of an invocation, as the chain of conditionals picks it
resolveTarget(o) ==
    IF o.user # EmptyStr THEN At \o o.user
    ELSE IF o.currentUser THEN (IF variant = "admin1" THEN At ELSE Hash) \o Uid
    ELSE IF o.channel # EmptyStr THEN Hash \o o.channel
    ELSE IF o.currentChannel THEN Hash \o Cid
    ELSE IF o.group # EmptyStr
    THEN (IF variant = "admin1" THEN Dollar ELSE GroupDot) \o o.group
    ELSE EmptyStr

\* perms.filter(x => !x.startsWith('~'))
AddTokens(perms) == SelectSeq(perms, LAMBDA x : ~StartsWith(x, Tilde))

\* perms.filter(x => x.startsWith('~')).map(x => x.slice(1))
RemoveTokens(perms) ==
    LET marked == SelectSeq(perms, LAMBDA x : StartsWith(x, Tilde))
    IN  [i \in 1..Len(marked) |-> Slice1(marked[i])]

\* this.findGroup(x).id reads a property of undefined
RefThrows(x) == StartsWith(x, Dollar) /\ findGroup(adminGroups, x) = 0

\* x.startsWith('$') ? `group:${this.findGroup(x).id ?? ''}` : x
ResolveRef(x) ==
    IF StartsWith(x, Dollar)
    THEN GroupColon \o IdStr(adminGroups[findGroup(adminGroups, x)].id)
    ELSE x

\* the lists handed on: the admin-backed command of part_001 resolves references
ResolveList(xs) ==
    IF variant = "admin1" THEN [i \in 1..Len(xs) |-> ResolveRef(xs[i])] ELSE xs

MapThrows(perms) ==
    /\ variant = "admin1"
    /\ \E i \in 1..Len(perms) :
           RefThrows(IF StartsWith(perms[i], Tilde) THEN Slice1(perms[i]) ELSE perms[i])

\* !options.force && set.includes('group:') || unset.includes('group:')
UnknownGroup(o, set, unset) ==
    /\ variant = "admin1"
    /\ \/ (~o.force /\ GroupColon \in Range(set))
       \/ GroupColon \in Range(unset)

\* the names the add list is checked against
Permlist ==
    IF variant = "admin1"
    THEN PermissionsList
             \cup {GroupColon \o IdStr(adminGroups[i].id) : i \in 1..Len(adminGroups)}
    ELSE PermissionsList

\* a check that lets every name through
NoUnknownPermission(o, set) == FALSE

\* set.some(x => !permlist.includes(x)), skipped by the force flag of part_001
UnknownPermission(o, set) ==
    /\ ~(variant = "admin1" /\ o.force)
    /\ \E i \in 1..Len(set) : set[i] \notin Permlist

Unchanged ==
    UNCHANGED <<users, channels, groups, nextId, registry, disposables,
                adminGroups, adminNextId>>

Answer(target, kind, list, text) ==
    call' = [Resolved(kind, list, text) EXCEPT !.target = target]

\* the delete branch of the admin-backed commands reads `target` in the find
\* callback before its declaration has run: with no group the callback never
\* runs; with one, a build that keeps `const` throws and a build that hoists it
\* compares every name with undefined, so ctx.admin.deleteGroup is never reached
AdminDeleteOutcomes ==
    IF adminGroups = <<>> THEN {"notfound"} ELSE {"throw", "notfound"}

DeleteBranch(o) ==
    IF variant = "db"
    THEN /\ DeleteEffect(GroupDot \o o.group)
         /\ Answer(GroupDot \o o.group, "text", <<>>, ".deleted")
    ELSE /\ Unchanged
         /\ \E outcome \in AdminDeleteOutcomes :
                IF outcome = "throw"
                THEN Answer(EmptyStr, "throw", <<>>, "ReferenceError")
                ELSE Answer(EmptyStr, "text", <<>>, ".notfound")

ModifyBranch(target, o, perms) ==
    IF MapThrows(perms)
    THEN Unchanged /\ Answer(target, "throw", <<>>, "TypeError")
    ELSE LET set == ResolveList(AddTokens(perms))
             unset == ResolveList(RemoveTokens(perms))
         IN  IF UnknownGroup(o, set, unset)
             THEN Unchanged /\ Answer(target, "text", <<>>, ".unknown-group")
             ELSE IF UnknownPermission(o, set)
             THEN Unchanged /\ Answer(target, "text", <<>>, ".unknown-permission")
             ELSE /\ ModifyEffect(target, set, unset)
                  /\ Answer(target, "text", <<>>,
                            IF ModifyReturns(target) THEN ".success" ELSE ".failure")

ViewBranch(target) ==
    /\ ListEffect(target)
    /\ Answer(target, listPermission(target).kind, listPermission(target).list,
              ".permissions")

PermCall ==
    /\ call.phase = "pending"
    /\ call.op = "perm"
    /\ LET o == call.options
           target == resolveTarget(o)
       IN  IF o.delete /\ o.group # EmptyStr /\ call.perms = <<>> THEN DeleteBranch(o)
           ELSE IF target = EmptyStr
           THEN Unchanged /\ Answer(target, "help", <<>>, "")
           ELSE IF call.perms # <<>> THEN ModifyBranch(target, o, call.perms)
           ELSE ViewBranch(target)
    /\ UNCHANGED <<variant, procs>>

\* the flags of one invocation: one selector, or -U with -c; -d with -g;
\* -f, which only part_001 declares, with -u
Selectors ==
    {[NoOptions EXCEPT !.user = Uid], [NoOptions EXCEPT !.currentUser = TRUE],
     [NoOptions EXCEPT !.channel = Cid], [NoOptions EXCEPT !.currentChannel = TRUE],
     [NoOptions EXCEPT !.group = NameA],
     [NoOptions EXCEPT !.currentUser = TRUE, !.channel = Cid]}

DeleteOption == [NoOptions EXCEPT !.group = NameA, !.delete = TRUE]

OptionSets ==
    {NoOptions} \cup Selectors
        \cup {DeleteOption}
        \cup {[NoOptions EXCEPT !.user = Uid, !.force = TRUE]}

PermRequest(o, perms) ==
    [Request("perm", EmptyStr, <<>>, <<>>) EXCEPT !.options = o, !.perms = perms]

\* the permission arguments of one invocation
PermLists ==
    {l \in Lists(Tokens, MaxPerms) : \A i \in 1..(Len(l) - 1) : Rank(l[i]) < Rank(l[i + 1])}

InvokePerm(o, perms) ==
    /\ call.phase = "idle"
    /\ procs = <<>>
    /\ o.force => variant = "admin1"
    /\ perms # <<>> => CanModify(resolveTarget(o))
    /\ call' = PermRequest(o, perms)
    /\ UNCHANGED <<variant, users, channels, groups, nextId, registry, disposables,
                   adminGroups, adminNextId, procs>>

\* the awaited calls, and `perm` invocations that only view a target
Next ==
    \/ \E r \in Requests(RecordTargets) : Invoke(r)
    \/ \E o \in Selectors : InvokePerm(o, <<>>)
    \/ ModifyPermissionCall
    \/ DeleteGroupCall
    \/ ListPermissionCall
    \/ PermCall
    \/ Return

Spec == Init /\ [][Next]_vars

\* the awaited calls on two groups, and `perm -g a -d`
NextGroups ==
    \/ \E r \in Requests(GroupTargets) : Invoke(r)
    \/ InvokePerm(DeleteOption, <<>>)
    \/ ModifyPermissionCall
    \/ DeleteGroupCall
    \/ ListPermissionCall
    \/ PermCall
    \/ Return

SpecGroups == Init /\ [][NextGroups]_vars

InitCmd ==
    /\ variant \in {"db", "admin0", "admin1"}
    /\ InitStores

NextCmd ==
    \/ \E o \in OptionSets, perms \in PermLists : InvokePerm(o, perms)
    \/ PermCall
    \/ Return

SpecCmd == InitCmd /\ [][NextCmd]_vars

\* a second user, whose platform and id are those of the channel
OtherUserTarget == At \o Cid

\* the keys modified where two users, a channel and two groups are followed
\* together
FrameTargets == {UserTarget, OtherUserTarget, ChannelTarget, GroupTargetA, GroupTargetB}

\* the add and remove lists of those calls: one name added or one removed
FrameArgs == {<<<<PermP>>, <<>>>>, <<<<PermQ>>, <<>>>>, <<<<>>, <<PermP>>>>}

FrameRequests ==
    {Request("modifyPermission", t, a[1], a[2]) : t \in FrameTargets, a \in FrameArgs}
        \cup {Request("deleteGroup", n, <<>>, <<>>) : n \in GroupNames}

\* modifyPermission and deleteGroup on records of every kind
NextFrame ==
    \/ \E r \in FrameRequests : Invoke(r)
    \/ ModifyPermissionCall
    \/ DeleteGroupCall
    \/ Return

SpecFrame == Init /\ [][NextFrame]_vars

\* the permission arguments of an invocation that names p and the group
\* permission of group.a, each to add or to remove, in any order
OrderTokens == {PermP, Tilde \o PermP, GroupTargetA, Tilde \o GroupTargetA}

OrderLists == Lists(OrderTokens, MaxPerms)

\* -u t:u and -g a
OrderSelectors ==
    {[NoOptions EXCEPT !.user = Uid], [NoOptions EXCEPT !.group = NameA]}

RepeatTargets == {UserTarget, GroupTargetA}

\* a caller awaits modifyPermission(target, set, unset) and keeps what the
\* record then holds
FirstApply(target, set, unset) ==
    /\ call.phase = "idle"
    /\ procs = <<>>
    /\ CanModify(target)
    /\ UNCHANGED <<variant, call>>
    /\ ModifyEffect(target, set, unset)
    /\ procs' = <<[pc |-> "once", target |-> target, set |-> set, unset |-> unset,
                   stored |-> listPermission(target)'.list]>>

\* and awaits the same call again
SecondApply ==
    /\ procs # <<>>
    /\ procs[1].pc = "once"
    /\ ModifyEffect(procs[1].target, procs[1].set, procs[1].unset)
    /\ procs' = <<[procs[1] EXCEPT !.pc = "twice"]>>
    /\ UNCHANGED <<variant, call>>

RepeatReturn ==
    /\ procs # <<>>
    /\ procs[1].pc = "twice"
    /\ procs' = <<>>
    /\ UNCHANGED <<variant, users, channels, groups, nextId, registry, disposables,
                   adminGroups, adminNextId, call>>

\* `perm` with its permission arguments in any order, and modifyPermission
\* awaited twice with the same arguments
NextOrder ==
    \/ \E o \in OrderSelectors, perms \in OrderLists : InvokePerm(o, perms)
    \/ PermCall
    \/ Return
    \/ \E t \in RepeatTargets, a \in Args : FirstApply(t, a[1], a[2])
    \/ SecondApply
    \/ RepeatReturn

SpecOrder == Init /\ [][NextOrder]_vars

----------------------------------------------------------------------------
(* Invocations on one group name that are in flight together, database-     *)
(* backed revision.  A method runs up to its next await, the awaited store  *)
(* operation takes effect, and the method resumes in a later step; steps of *)
(* other invocations may come in between.                                   *)

Procs == {1, 2}

ConcGroup == GroupTargetA

\* the add and remove lists the interleaved calls use: one name
ConcArgs == {a \in Args : Len(a[1]) + Len(a[2]) = 1}

IdleProc == [pc |-> "idle", set |-> <<>>, unset |-> <<>>, permissions |-> <<>>]

\* invocations that may still create a row
MayCreate == {p \in Procs : procs[p].pc \in {"get", "create"}}

StartModify(p, set, unset) ==
    /\ procs # <<>>
    /\ procs[p].pc = "idle"
    /\ nextId + Cardinality(MayCreate) <= MaxId
    /\ procs' = [procs EXCEPT ![p] = [IdleProc EXCEPT !.pc = "get", !.set = set,
                                                       !.unset = unset]]
    /\ UNCHANGED <<variant, users, channels, groups, nextId, registry, disposables,
                   adminGroups, adminNextId, call>>

StartDelete(p) ==
    /\ procs # <<>>
    /\ procs[p].pc = "idle"
    /\ procs' = [procs EXCEPT ![p] = [IdleProc EXCEPT !.pc = "remove"]]
    /\ UNCHANGED <<variant, users, channels, groups, nextId, registry, disposables,
                   adminGroups, adminNextId, call>>

\* await this.ctx.database.get('permissions', { name: target }), then ?.[0]
AwaitGet(p) ==
    /\ procs # <<>>
    /\ procs[p].pc = "get"
    /\ procs' = [procs EXCEPT ![p] =
                    IF GroupRows(ConcGroup) # {}
                    THEN [@ EXCEPT !.pc = "set",
                                   !.permissions = FirstRow(GroupRows(ConcGroup)).permissions]
                    ELSE [@ EXCEPT !.pc = "create"]]
    /\ UNCHANGED <<variant, users, channels, groups, nextId, registry, disposables,
                   adminGroups, adminNextId, call>>

\* ?? await this.ctx.database.create('permissions', { name: target })
AwaitCreate(p) ==
    /\ procs # <<>>
    /\ procs[p].pc = "create"
    /\ groups' = groups \cup {[id |-> nextId, name |-> ConcGroup, permissions |-> <<>>]}
    /\ nextId' = nextId + 1
    /\ procs' = [procs EXCEPT ![p] = [@ EXCEPT !.pc = "set", !.permissions = <<>>]]
    /\ UNCHANGED <<variant, users, channels, registry, disposables,
                   adminGroups, adminNextId, call>>

\* the set is merged from the row read earlier, then
\* await this.ctx.database.set('permissions', { name: target }, ...)
AwaitSet(p) ==
    /\ procs # <<>>
    /\ procs[p].pc = "set"
    /\ LET permissions == Merge(procs[p].permissions, procs[p].set, procs[p].unset)
       IN  /\ groups' = SetRows(groups, ConcGroup, permissions)
           /\ procs' = [procs EXCEPT ![p] = [@ EXCEPT !.pc = "publish",
                                                      !.permissions = permissions]]
    /\ UNCHANGED <<variant, users, channels, nextId, registry, disposables,
                   adminGroups, adminNextId, call>>

\* await this.#updateGroup(target, [...permissions]); return true
Publish(p) ==
    /\ procs # <<>>
    /\ procs[p].pc = "publish"
    /\ LET pub == updateGroup(registry, disposables, ConcGroup, procs[p].permissions)
       IN  /\ registry' = pub.registry
           /\ disposables' = pub.disposables
    /\ procs' = [procs EXCEPT ![p] = IdleProc]
    /\ UNCHANGED <<variant, users, channels, groups, nextId,
                   adminGroups, adminNextId, call>>

\* await this.ctx.database.remove('permissions', { name })
AwaitRemove(p) ==
    /\ procs # <<>>
    /\ procs[p].pc = "remove"
    /\ groups' = RemoveRows(groups, ConcGroup)
    /\ procs' = [procs EXCEPT ![p] = [@ EXCEPT !.pc = "dispose"]]
    /\ UNCHANGED <<variant, users, channels, nextId, registry, disposables,
                   adminGroups, adminNextId, call>>

\* this.disposables[name]?.(); delete this.disposables[name]
DisposeDeleted(p) ==
    /\ procs # <<>>
    /\ procs[p].pc = "dispose"
    /\ registry' = DisposeNamed(registry, disposables, ConcGroup)
    /\ disposables' = DeleteKey(disposables, ConcGroup)
    /\ procs' = [procs EXCEPT ![p] = IdleProc]
    /\ UNCHANGED <<variant, users, channels, groups, nextId,
                   adminGroups, adminNextId, call>>

InitConc ==
    /\ variant = "db"
    /\ users = <<>>
    /\ channels = <<>>
    /\ groups = {}
    /\ nextId = 1
    /\ registry = {}
    /\ disposables = <<>>
    /\ adminGroups = <<>>
    /\ adminNextId = 1
    /\ procs = [p \in Procs |-> IdleProc]
    /\ call = Idle

NextConc ==
    \/ \E p \in Procs, a \in ConcArgs : StartModify(p, a[1], a[2])
    \/ \E p \in Procs : StartDelete(p)
    \/ \E p \in Procs : AwaitGet(p)
    \/ \E p \in Procs : AwaitCreate(p)
    \/ \E p \in Procs : AwaitSet(p)
    \/ \E p \in Procs : Publish(p)
    \/ \E p \in Procs : AwaitRemove(p)
    \/ \E p \in Procs : DisposeDeleted(p)

SpecConc == InitConc /\ [][NextConc]_vars

----------------------------------------------------------------------------
(* Properties of the awaited calls, database-backed revision *)

UserKey == <<<<"t">>, <<"u">>>>
ChannelKey == <<<<"t">>, <<"c">>>>

LiveFor(name) == {r \in registry : r.name = name}

Ran(op) == call.phase = "pending" /\ call'.phase = "done" /\ call.op = op

Done(op) == call.phase = "done" /\ call.op = op

\* C2: every group name with a stored record has exactly one live
\* registration, kept in disposables, whose permission list is the stored one
C2_OneRegistrationPerGroup ==
    \A g \in groups :
        /\ Cardinality(LiveFor(g.name)) = 1
        /\ \A r \in LiveFor(g.name) :
              /\ r.permissions = g.permissions
              /\ g.name \in DOMAIN disposables
              /\ disposables[g.name] = r.rid

\* group.a, published with p by an earlier call, was published again with q added
C2_Witness ==
    /\ Done("modifyPermission")
    /\ call.target = GroupTargetA
    /\ call.set = <<PermQ>>
    /\ \E g \in groups : g.name = GroupTargetA /\ g.permissions = <<PermP, PermQ>>
    /\ \E r \in registry : r.name = GroupTargetA /\ r.permissions = <<PermP, PermQ>>

\* C3: once deleteGroup(name) has completed, called directly or by the
\* delete branch of `perm`, there is no row of that name, no live
\* registration of that name and no entry in disposables
C3_DeleteGroupClears ==
    (Done("deleteGroup") \/ (Done("perm") /\ call.text = ".deleted")) =>
        /\ GroupRows(call.target) = {}
        /\ LiveFor(call.target) = {}
        /\ call.target \notin DOMAIN disposables

\* group.a existed and was published, and deleteGroup removed it
C3_Witness ==
    /\ Done("deleteGroup")
    /\ call.target = GroupTargetA
    /\ nextId = 2
    /\ groups = {}
    /\ registry = {}

\* the permission set a key's record holds, the empty set when there is none
StoredSet(target) == Range(listPermission(target).list)

\* C4: modifyPermission on a non-empty key leaves the key's record existing,
\* holding exactly (old set \cup set) \ unset, and resolves to true
C4_ModifyPersistsMergedSet ==
    [][\A t \in Targets \ {EmptyStr} :
          (Ran("modifyPermission") /\ call.target = t) =>
              /\ listPermission(t)'.kind = "list"
              /\ StoredSet(t)' = (StoredSet(t) \cup Range(call.set)) \ Range(call.unset)
              /\ call'.kind = "true"]_vars

\* a user record created by the call that gave it q and took p, which it had not
C4_Witness ==
    /\ Done("modifyPermission")
    /\ call.target = UserTarget
    /\ call.set = <<PermQ>>
    /\ call.unset = <<PermP>>
    /\ call.kind = "true"
    /\ UserKey \in DOMAIN users
    /\ users[UserKey] = <<PermQ>>
    /\ channels = <<>>
    /\ groups = {}

\* C5: no stored permission list holds a name twice
C5_NoDuplicates ==
    /\ \A k \in DOMAIN users : NoDup(users[k])
    /\ \A k \in DOMAIN channels : NoDup(channels[k])
    /\ \A g \in groups : NoDup(g.permissions)

\* the add list named p twice, and the record holds it once
C5_Witness ==
    /\ Done("modifyPermission")
    /\ call.target = ChannelTarget
    /\ call.set = <<PermP, PermP>>
    /\ ChannelKey \in DOMAIN channels
    /\ channels[ChannelKey] = <<PermQ, PermP>>

\* C7: a group call creates one row when the name has none and no row when
\* it has one, and no two rows ever share a name
C7_LazyUniqueGroups ==
    [][/\ \A t \in GroupNames :
             (Ran("modifyPermission") /\ call.target = t) =>
                 /\ Cardinality(GroupRows(t)') = 1
                 /\ Cardinality(groups') =
                        Cardinality(groups) + (IF GroupRows(t) = {} THEN 1 ELSE 0)
       /\ \A g, h \in groups' : g.name = h.name => g = h]_vars

\* group.a and group.b exist, and a further call on group.a added no row
C7_Witness ==
    /\ Done("modifyPermission")
    /\ call.target = GroupTargetA
    /\ call.set = <<>>
    /\ call.unset = <<PermP>>
    /\ nextId = 3
    /\ Cardinality(groups) = 2
    /\ \E g \in groups : g.name = GroupTargetA /\ g.permissions = <<PermQ>>

----------------------------------------------------------------------------
(* What each key's record is, read off the stores without the add-on's code *)

RecordOf(target) ==
    IF target = UserTarget /\ UserKey \in DOMAIN users THEN ListOf(users[UserKey])
    ELSE IF target = ChannelTarget /\ ChannelKey \in DOMAIN channels
    THEN ListOf(channels[ChannelKey])
    ELSE IF \E g \in groups : g.name = target
    THEN ListOf((CHOOSE g \in groups : g.name = target).permissions)
    ELSE Undefined

\* C8: listPermission changes no record and no registration, and resolves
\* to the stored list of the record the key selects, undefined without one;
\* so does a `perm` invocation that names no permission
C8_ListPermissionReadOnly ==
    [][/\ Ran("listPermission") =>
              /\ UNCHANGED <<users, channels, groups, nextId, registry, disposables,
                             adminGroups, adminNextId>>
              /\ call'.kind = RecordOf(call.target).kind
              /\ call'.list = RecordOf(call.target).list
       /\ (Ran("perm") /\ call.perms = <<>> /\ ~call.options.delete) =>
              /\ UNCHANGED <<users, channels, groups, nextId, registry, disposables,
                             adminGroups, adminNextId>>
              /\ call'.kind = RecordOf(call'.target).kind
              /\ call'.list = RecordOf(call'.target).list]_vars

\* listing a group that does not exist resolved to undefined and created nothing
C8_Witness ==
    /\ Done("listPermission")
    /\ call.target = GroupTargetB
    /\ call.kind = "undefined"
    /\ GroupRows(GroupTargetB) = {}
    /\ UserKey \in DOMAIN users
    /\ registry # {}

----------------------------------------------------------------------------
(* Properties of the `perm` command *)

Stripped(x) == IF StartsWith(x, Tilde) THEN Slice1(x) ELSE x

\* C1, as first stated: with a target, an add name that ctx.permissions.list()
\* does not hold makes the command answer unknown-permission and change nothing
C1_UnknownAddRejected ==
    [][(/\ Ran("perm")
        /\ resolveTarget(call.options) # EmptyStr
        /\ \E x \in Range(AddTokens(call.perms)) : x \notin PermissionsList) =>
           /\ call'.kind = "text"
           /\ call'.text = ".unknown-permission"
           /\ Unchanged]_vars

\* an add name that is unknown however it is read: not listed, no reference
\* and not the group:<id> name of an existing admin group
PlainUnknown(x) ==
    /\ x \notin PermissionsList
    /\ variant = "admin1" =>
           /\ ~StartsWith(x, Dollar)
           /\ \A i \in 1..Len(adminGroups) : x # GroupColon \o IdStr(adminGroups[i].id)

\* a list names a group that does not exist: a $ reference to no group, or
\* the bare prefix group:
BadRef(perms) ==
    /\ variant = "admin1"
    /\ \E x \in Range(perms) :
           \/ Stripped(x) = GroupColon
           \/ StartsWith(Stripped(x), Dollar) /\ findGroup(adminGroups, Stripped(x)) = 0

\* C1, amended: without the force flag of part_001 a plainly unknown add name
\* leaves every record and registration as it was, and the answer is
\* unknown-permission unless a list names a group that does not exist; with
\* the force flag, and no such group named, the modification goes ahead and
\* every plain add name that is not also removed is stored
C1_UnknownAddRejectedUnlessForced ==
    [][/\ (/\ Ran("perm")
           /\ resolveTarget(call.options) # EmptyStr
           /\ ~call.options.force
           /\ \E x \in Range(AddTokens(call.perms)) : PlainUnknown(x)) =>
              /\ Unchanged
              /\ ~BadRef(call.perms) =>
                     (call'.kind = "text" /\ call'.text = ".unknown-permission")
       /\ (/\ Ran("perm")
           /\ resolveTarget(call.options) # EmptyStr
           /\ call.options.force
           /\ call.perms # <<>>
           /\ ~BadRef(call.perms)) =>
              /\ call'.text = ".success"
              /\ \A x \in Range(AddTokens(call.perms)) \ Range(RemoveTokens(call.perms)) :
                     ~StartsWith(x, Dollar) => x \in StoredSet(resolveTarget(call.options))'
      ]_vars

\* the user holds x from a forced invocation, and an invocation without the
\* flag that names x again is answered unknown-permission
C1_Witness ==
    /\ Done("perm")
    /\ variant = "admin1"
    /\ call.options = [NoOptions EXCEPT !.user = Uid]
    /\ call.perms = <<PermP, Unknown>>
    /\ call.text = ".unknown-permission"
    /\ UserKey \in DOMAIN users
    /\ users[UserKey] = <<Unknown>>

\* C6: the key is tagged @ for -u and for -U, # for -c and for -C, and with
\* the group sigil for -g, and -U never makes a channel record of the user
C6_ResolverTagsBySigil ==
    /\ UserKey \notin DOMAIN channels
    /\ (Done("perm") /\ ~(call.options.delete /\ call.perms = <<>>)) =>
          LET o == call.options
          IN  IF o.user # EmptyStr THEN call.target = At \o o.user
              ELSE IF o.currentUser THEN call.target = At \o Uid
              ELSE IF o.channel # EmptyStr THEN call.target = Hash \o o.channel
              ELSE IF o.currentChannel THEN call.target = Hash \o Cid
              ELSE IF o.group # EmptyStr
              THEN call.target \in {GroupDot \o o.group, Dollar \o o.group}
              ELSE call.target = EmptyStr

\* C10: in the admin-backed command of part_001 a reference to a group that
\* does not exist is answered unknown-group with nothing changed, and with
\* the force flag the checks are skipped and the modification goes ahead
C10_UnknownGroupAnswered ==
    [][(/\ Ran("perm")
        /\ variant = "admin1"
        /\ resolveTarget(call.options) # EmptyStr
        /\ \E x \in Range(call.perms) :
               StartsWith(Stripped(x), Dollar) /\ findGroup(adminGroups, Stripped(x)) = 0) =>
           IF call.options.force
           THEN call'.kind = "text" /\ call'.text = ".success"
           ELSE call'.kind = "text" /\ call'.text = ".unknown-group" /\ Unchanged]_vars

\* the stored groups of the admin service, as a set of names
AdminNames(ag) == {ag[i].name : i \in 1..Len(ag)}

\* C11: in the admin-backed command, -d with -g and no permission names
\* removes the group of that name from the admin group list and answers
\* deleted when it exists, and answers not-found with nothing changed when
\* it does not
C11_AdminDeleteRemovesGroup ==
    [][(/\ Ran("perm")
        /\ variant # "db"
        /\ call.options.delete
        /\ call.options.group # EmptyStr
        /\ call.perms = <<>>) =>
           IF call.options.group \in AdminNames(adminGroups)
           THEN /\ call.options.group \notin AdminNames(adminGroups')
                /\ call'.kind = "text"
                /\ call'.text = ".deleted"
           ELSE /\ call'.kind = "text"
                /\ call'.text = ".notfound"
                /\ Unchanged]_vars

----------------------------------------------------------------------------
(* The frame of modifyPermission *)

\* the user key a target addresses, none for another kind of target
UserKeysOf(target) ==
    IF StartsWith(target, At) THEN {parsePlatform(Slice1(target))} ELSE {}

\* the channel key a target addresses, none for another kind of target
ChannelKeysOf(target) ==
    IF StartsWith(target, Hash) THEN {parsePlatform(Slice1(target))} ELSE {}

\* the records of table other than keys are the same before and after the step
SameExcept(table, keys) ==
    /\ (DOMAIN table') \ keys = (DOMAIN table) \ keys
    /\ \A k \in (DOMAIN table) \ keys : table'[k] = table[k]

\* C12: a modifyPermission step leaves every user, channel and group record
\* other than the one its target addresses as it was, leaves the
\* registrations and disposers of every other group name as they were, and
\* on a user or channel target leaves every group record, registration and
\* disposer as it was
C12_ModifyChangesOnlyTarget ==
    [][Ran("modifyPermission") =>
          LET t == call.target
          IN  /\ SameExcept(users, UserKeysOf(t))
              /\ SameExcept(channels, ChannelKeysOf(t))
              /\ {g \in groups' : g.name # t} = {g \in groups : g.name # t}
              /\ {r \in registry' : r.name # t} = {r \in registry : r.name # t}
              /\ SameExcept(disposables, {t})
              /\ (StartsWith(t, At) \/ StartsWith(t, Hash)) =>
                     UNCHANGED <<groups, nextId, registry, disposables>>]_vars

\* group.a gained q while the other user, the channel and group.b, each
\* holding p, and the registration of group.b stayed as they were
C12_Witness ==
    /\ Done("modifyPermission")
    /\ call.target = GroupTargetA
    /\ call.set = <<PermQ>>
    /\ UserKey \notin DOMAIN users
    /\ ChannelKey \in DOMAIN users
    /\ users[ChannelKey] = <<PermP>>
    /\ ChannelKey \in DOMAIN channels
    /\ channels[ChannelKey] = <<PermP>>
    /\ \E g \in groups : g.name = GroupTargetA /\ g.permissions = <<PermQ>>
    /\ \E g \in groups : g.name = GroupTargetB /\ g.permissions = <<PermP>>
    /\ \E r \in registry : r.name = GroupTargetB /\ r.permissions = <<PermP>>

----------------------------------------------------------------------------
(* Additions before removals, and the same call made twice *)

Repeating(pc) == procs # <<>> /\ procs[1].pc = pc

\* C13: a name given both to add and to remove is absent from the stored
\* set once the modification is made, wherever the two stand among the
\* arguments of `perm` and in a direct call alike; and after the same
\* modifyPermission(target, set, unset) is made a second time the record
\* holds the set it held after the first
C13_AddBeforeRemoveIdempotent ==
    /\ (Done("perm") /\ call.text = ".success") =>
           \A n \in {PermP, GroupTargetA} :
               (n \in Range(call.perms) /\ (Tilde \o n) \in Range(call.perms)) =>
                   n \notin StoredSet(call.target)
    /\ (Repeating("once") \/ Repeating("twice")) =>
           \A n \in Range(procs[1].set) \cap Range(procs[1].unset) :
               n \notin StoredSet(procs[1].target)
    /\ Repeating("twice") =>
           StoredSet(procs[1].target) = Range(procs[1].stored)

\* the user held p and q; modifyPermission with p both to add and to remove
\* was made twice, and the record holds q as it did after the first
C13_Witness ==
    /\ Repeating("twice")
    /\ procs[1].target = UserTarget
    /\ procs[1].set = <<PermP>>
    /\ procs[1].unset = <<PermP>>
    /\ procs[1].stored = <<PermQ>>
    /\ users[UserKey] = <<PermQ>>
    /\ \E g \in groups : g.name = GroupTargetA /\ g.permissions = <<PermP>>

----------------------------------------------------------------------------
(* Properties of the interleaved invocations *)

Quiescent == procs # <<>> /\ \A p \in Procs : procs[p].pc = "idle"

\* C9: once the interleaved invocations on a group name have completed, the
\* name has at most one row and at most one live registration, the live
\* registration lists the stored set, and without a row there is none
C9_NoRaces ==
    Quiescent =>
        /\ Cardinality(GroupRows(ConcGroup)) <= 1
        /\ Cardinality(LiveFor(ConcGroup)) <= 1
        /\ \A g \in GroupRows(ConcGroup), r \in LiveFor(ConcGroup) :
               Range(r.permissions) = Range(g.permissions)
        /\ GroupRows(ConcGroup) = {} => LiveFor(ConcGroup) = {}

====
